---- MODULE Spec2Model ----
(***************************************************************************)
(* Model of bkup (src/entry.rs): a one-way reconciliation of a source     *)
(* directory tree onto a destination directory tree.                      *)
(*                                                                         *)
(*   build   DirEntry::new / DirEntry::visit   filesystem -> Entry tree    *)
(*   diff    Entry::cmp / DirEntry::cmp / FileEntry::cmp /                 *)
(*           file_cmp_modified                 two Entry trees -> delta    *)
(*   apply   EntryDelta::clear / DirEntry::copy / FileEntry::copy          *)
(*                                                                         *)
(* Spec is a whole run; SpecProbe runs file_cmp_modified alone, SpecCopy   *)
(* FileEntry::copy alone, SpecBuild the tree building with an ignore       *)
(* filter over symbolic links and special files, SpecRun a whole run whose *)
(* roots may be missing, SpecMain the comparison of the earliest revision  *)
(* (src/main.rs), SpecIgnore a whole run with an ignore filter, SpecVisit  *)
(* the tree building call by call over symbolic links that form cycles.    *)
(*                                                                         *)
(* Paths are sequences of components; the first component is the root.     *)
(* The filesystem is a function from the existing paths to their nodes.    *)
(* Modification times and the accuracy are durations in one abstract unit. *)
(***************************************************************************)
EXTENDS Integers, Sequences, FiniteSets, TLC

VARIABLES
    fs,        \* the filesystem: [existing path -> node]
    fs0,       \* the filesystem when the run started (history)
    accuracy,  \* the tolerance given to every comparison
    source,    \* Entry tree built from the source root, or NoEntry
    dest,      \* Entry tree built from the destination root, or NoEntry
    delta,     \* result of source.cmp(dest, accuracy), or NoDelta
    stack,     \* pending calls of clear / copy (the recursion, depth-first)
    ops,       \* filesystem operations issued so far (history)
    pc,        \* position of the run
    delta2,    \* result of comparing source with the rebuilt destination
    probe,     \* inputs and result of one file_cmp_modified call
    ignore,    \* the ignore filter given to the tree building, or IGNORE
    unreadable \* the files whose metadata could not be read by the comparison

vars == <<fs, fs0, accuracy, source, dest, delta, stack, ops, pc, delta2, probe,
          ignore, unreadable>>

----------------------------------------------------------------------------
(* Bounds of the model *)

\* the accuracy of a run is 0..MaxTol
MaxTol == 3
\* number of distinct relative paths in use below the two roots together
\* (a chain of MaxPaths nested entries is the deepest tree)
MaxPaths == 3
\* durations given to file_cmp_modified alone are 0..MaxProbe
MaxProbe == 5
\* number of metadata reads that fail during one comparison
MaxUnreadable == 1
\* number of symbolic links the resolution of one path follows before it gives
\* up with ELOOP (40 on Linux)
MaxHops == 2

Names == {"a", "b"}
SrcRoot == <<"src">>
DstRoot == <<"dst">>

\* The modification times of the files of a run. With the accuracies 0..3 two
\* times give every outcome of a comparison: equal times; a difference above
\* the accuracy (0, 1), equal to it (2), and an accuracy above both times (3).
\* file_cmp_modified alone is run on every triple up to MaxProbe.
Times == {0, 2}
Tols == 0..MaxTol

----------------------------------------------------------------------------
(* Paths and the filesystem *)

Parent(p) == SubSeq(p, 1, Len(p) - 1)
FileName(p) == p[Len(p)]
Join(p, name) == Append(p, name)
IsPrefix(p, q) == Len(p) <= Len(q) /\ SubSeq(q, 1, Len(p)) = p

DirNode == [kind |-> "dir", mtime |-> 0]
FileNode(t) == [kind |-> "file", mtime |-> t]
\* a symbolic link to the path target, and a fifo, socket or device
SymlinkNode(target) == [kind |-> "symlink", mtime |-> 0, target |-> target]
SpecialNode == [kind |-> "special", mtime |-> 0]

\* the path itself is there (a link counts, whatever it points to)
Exists(f, p) == p \in DOMAIN f

RECURSIVE Resolve_PerLink(_, _, _)
\* variant: the limit is applied to each chain of links, not to the whole path
Resolve_PerLink(f, p, hops) ==
    IF p \in DOMAIN f
    THEN IF f[p].kind = "symlink"
         THEN IF hops = 0 THEN <<>> ELSE Resolve_PerLink(f, f[p].target, hops - 1)
         ELSE p
    ELSE LET links == {n \in 1..(Len(p) - 1) :
                          /\ SubSeq(p, 1, n) \in DOMAIN f
                          /\ f[SubSeq(p, 1, n)].kind = "symlink"}
         IN  IF links = {} THEN <<>>
             ELSE LET n == CHOOSE n \in links : TRUE
                      base == Resolve_PerLink(f, SubSeq(p, 1, n), hops)
                  IN  IF base = <<>> THEN <<>>
                      ELSE Resolve_PerLink(f, base \o SubSeq(p, n + 1, Len(p)), MaxHops)

RECURSIVE Resolve(_, _, _)
\* path resolution with hops links left to follow: a link met on the way is
\* replaced by its target; <<>> when nothing is there or the links run out
Resolve(f, p, hops) ==
    IF p \in DOMAIN f
    THEN IF f[p].kind = "symlink"
         THEN IF hops = 0 THEN <<>> ELSE Resolve(f, f[p].target, hops - 1)
         ELSE p
    ELSE LET links == {n \in 1..(Len(p) - 1) :
                          /\ SubSeq(p, 1, n) \in DOMAIN f
                          /\ f[SubSeq(p, 1, n)].kind = "symlink"}
         IN  IF links = {} \/ hops = 0 THEN <<>>
             ELSE LET n == CHOOSE n \in links : TRUE
                  IN  Resolve(f, f[SubSeq(p, 1, n)].target \o SubSeq(p, n + 1, Len(p)),
                              hops - 1)

\* Path::is_dir, Path::is_file, fs::read_dir and fs::metadata traverse symbolic
\* links: the node that p denotes once every link is followed, <<>> if none
Real(f, p) == Resolve(f, p, MaxHops)

IsDir(f, p) == LET r == Real(f, p) IN r # <<>> /\ f[r].kind = "dir"
IsFile(f, p) == LET r == Real(f, p) IN r # <<>> /\ f[r].kind = "file"
\* the paths of the children of the directory that p denotes
ReadDir(f, p) ==
    LET r == Real(f, p)
    IN  IF r = <<>> THEN {}
        ELSE {Join(p, FileName(q)) : q \in {q \in DOMAIN f : Len(q) = Len(r) + 1 /\ Parent(q) = r}}
\* fs::metadata(p)?.modified()
Modified(f, p) == f[Real(f, p)].mtime

Put(f, p, node) == [q \in DOMAIN f \cup {p} |-> IF q = p THEN node ELSE f[q]]

----------------------------------------------------------------------------
(* Entry trees *)

NoEntry == [kind |-> "None"]
BuildErr == [kind |-> "Err"]

FileEntryNew(f, path) ==
    IF IsFile(f, path) THEN [kind |-> "File", path |-> path] ELSE BuildErr

\* Option<&Gitignore>: None, or the matcher compiled from a set of patterns
IGNORE == [kind |-> "None"]
Gitignore(patterns) == [kind |-> "Some", patterns |-> patterns]

\* the extension of a name, "" when it has none
Ext(name) ==
    CASE name = "a.tmp" -> "tmp"
      [] name = "a.txt" -> "txt"
      [] OTHER -> ""

\* a glob without a slash is matched against the last component of the path:
\* a name matches itself, and "*.tmp" matches every name that ends in .tmp
GlobMatches(glob, name) ==
    \/ glob = name
    \/ glob = "*.tmp" /\ Ext(name) = "tmp"

\* variant: every pattern is taken as a directory pattern
Ignored_DirsOnly(ign, path, is_dir) ==
    /\ ign.kind = "Some"
    /\ is_dir
    /\ \E pt \in ign.patterns : GlobMatches(pt.glob, FileName(path))

\* ignore.matched(&path, is_dir).is_ignore(): a pattern that ends in a slash
\* matches directories only
Ignored(ign, path, is_dir) ==
    /\ ign.kind = "Some"
    /\ \E pt \in ign.patterns :
          /\ GlobMatches(pt.glob, FileName(path))
          /\ pt.dir_only => is_dir

RECURSIVE DirEntryNew(_, _, _)
\* variant: the filter is asked for files only, a matched directory is visited
Visit_IgnoreFilesOnly(f, path, ign) ==
    LET kept == {q \in ReadDir(f, path) :
                    /\ IsDir(f, q) \/ ~Ignored(ign, q, FALSE)
                    /\ IsDir(f, q) \/ IsFile(f, q)}
    IN  [name \in {FileName(q) : q \in kept} |->
            LET q == Join(path, name)
            IN  IF IsDir(f, q) THEN DirEntryNew(f, q, ign) ELSE FileEntryNew(f, q)]

Visit(f, path, ign) ==
    LET kept == {q \in ReadDir(f, path) :
                    /\ ~Ignored(ign, q, IsDir(f, q))
                    /\ IsDir(f, q) \/ IsFile(f, q)}
    IN  [name \in {FileName(q) : q \in kept} |->
            LET q == Join(path, name)
            IN  IF IsDir(f, q) THEN DirEntryNew(f, q, ign) ELSE FileEntryNew(f, q)]

DirEntryNew(f, path, ign) ==
    IF IsDir(f, path)
    THEN LET entries == Visit(f, path, ign)
         IN  IF \E n \in DOMAIN entries : entries[n].kind = "Err"
             THEN BuildErr
             ELSE [kind |-> "Dir", path |-> path, entries |-> entries]
    ELSE BuildErr

----------------------------------------------------------------------------
(* Comparison *)

\* variant: the comparisons are not strict
file_cmp_modified_Ge(s, d, acc) ==
    IF s >= d
    THEN IF acc > s THEN "Panic"
         ELSE IF (s - acc) >= d THEN "Newer" ELSE "Same"
    ELSE IF acc > d THEN "Panic"
         ELSE IF (d - acc) >= s THEN "Older" ELSE "Same"

\* variant: the accuracy is applied to a newer source only
file_cmp_modified_OneSided(s, d, acc) ==
    IF s > d
    THEN IF acc > s THEN "Panic"
         ELSE IF (s - acc) > d THEN "Newer" ELSE "Same"
    ELSE IF d > s THEN "Older"
    ELSE "Same"

\* Duration - Duration panics when the result would be negative.
file_cmp_modified(s, d, acc) ==
    IF s > d
    THEN IF acc > s THEN "Panic"
         ELSE IF (s - acc) > d THEN "Newer" ELSE "Same"
    ELSE IF d > s
    THEN IF acc > d THEN "Panic"
         ELSE IF (d - acc) > s THEN "Older" ELSE "Same"
    ELSE "Same"

CmpErr(kinds) == [kind |-> "Err", errs |-> kinds]

\* f is the filesystem as the metadata reads see it
FileEntryCmp(f, e1, e2, acc) ==
    IF Real(f, e1.path) = <<>> \/ Real(f, e2.path) = <<>>
    THEN CmpErr({"Metadata"})
    ELSE LET diff == file_cmp_modified(Modified(f, e1.path), Modified(f, e2.path), acc)
         IN  IF diff = "Panic"
             THEN CmpErr({"Panic"})
             ELSE [kind |-> "File", source |-> e1, dest |-> e2, diff |-> diff]

\* variant: the path is the entry's own path
NotFound_SrcPath(e1, destDir) ==
    [kind |-> "NotFound", entry |-> e1, path |-> e1.path]

\* variant: the path is the destination directory, the name is not joined
NotFound_Flat(e1, destDir) ==
    [kind |-> "NotFound", entry |-> e1, path |-> destDir.path]

NotFound(e1, destDir) ==
    [kind |-> "NotFound", entry |-> e1, path |-> Join(destDir.path, FileName(e1.path))]

\* variant: a sub-directory counts as Same whatever its own status is
IsSameDelta_FilesOnly(d) ==
    \/ d.kind = "Dir"
    \/ d.kind = "File" /\ d.diff = "Same"

\* the match of DirEntry::cmp that keeps is_same
IsSameDelta(d) ==
    \/ d.kind = "Dir" /\ d.diff = "Same"
    \/ d.kind = "File" /\ d.diff = "Same"

RECURSIVE EntryCmp(_, _, _, _)
\* variant: the names of both directories are walked
DirEntryCmp_BothSides(f, d1, d2, acc) ==
    LET results == [name \in DOMAIN d1.entries \cup DOMAIN d2.entries |->
                        IF name \notin DOMAIN d2.entries
                        THEN NotFound(d1.entries[name], d2)
                        ELSE IF name \notin DOMAIN d1.entries
                        THEN NotFound(d2.entries[name], d1)
                        ELSE EntryCmp(f, d1.entries[name], d2.entries[name], acc)]
        failed == {name \in DOMAIN results : results[name].kind = "Err"}
        is_same == \A name \in DOMAIN results : IsSameDelta(results[name])
    IN  IF failed # {}
        THEN CmpErr(UNION {results[name].errs : name \in failed})
        ELSE [kind |-> "Dir", source |-> d1, dest |-> d2,
              diff |-> IF is_same THEN "Same" ELSE "Different",
              entries |-> results]

\* variant: a child whose delta is Same is not recorded
DirEntryCmp_DropSame(f, d1, d2, acc) ==
    LET all == [name \in DOMAIN d1.entries |->
                    IF name \in DOMAIN d2.entries
                    THEN EntryCmp(f, d1.entries[name], d2.entries[name], acc)
                    ELSE NotFound(d1.entries[name], d2)]
        failed == {name \in DOMAIN all : all[name].kind = "Err"}
        results == [name \in {n \in DOMAIN all : ~IsSameDelta(all[n])} |-> all[name]]
    IN  IF failed # {}
        THEN CmpErr(UNION {all[name].errs : name \in failed})
        ELSE [kind |-> "Dir", source |-> d1, dest |-> d2,
              diff |-> IF DOMAIN results = {} THEN "Same" ELSE "Different",
              entries |-> results]

\* variant: a child whose comparison failed is left out of the delta
DirEntryCmp_SkipFailed(f, d1, d2, acc) ==
    LET all == [name \in DOMAIN d1.entries |->
                    IF name \in DOMAIN d2.entries
                    THEN EntryCmp(f, d1.entries[name], d2.entries[name], acc)
                    ELSE NotFound(d1.entries[name], d2)]
        results == [name \in {n \in DOMAIN all : all[n].kind # "Err"} |-> all[name]]
        is_same == \A name \in DOMAIN results : IsSameDelta(results[name])
    IN  [kind |-> "Dir", source |-> d1, dest |-> d2,
         diff |-> IF is_same THEN "Same" ELSE "Different",
         entries |-> results]

\* The children are compared in the map's iteration order and the first failure
\* is returned: with several failing children any of their errors can come out.
DirEntryCmp(f, d1, d2, acc) ==
    LET results == [name \in DOMAIN d1.entries |->
                        IF name \in DOMAIN d2.entries
                        THEN EntryCmp(f, d1.entries[name], d2.entries[name], acc)
                        ELSE NotFound(d1.entries[name], d2)]
        failed == {name \in DOMAIN results : results[name].kind = "Err"}
        is_same == \A name \in DOMAIN results : IsSameDelta(results[name])
    IN  IF failed # {}
        THEN CmpErr(UNION {results[name].errs : name \in failed})
        ELSE [kind |-> "Dir", source |-> d1, dest |-> d2,
              diff |-> IF is_same THEN "Same" ELSE "Different",
              entries |-> results]

\* variant: an entry of the other type counts as missing
EntryCmp_MismatchNotFound(f, e1, e2, acc) ==
    IF e1.kind = "Dir" /\ e2.kind = "Dir" THEN DirEntryCmp(f, e1, e2, acc)
    ELSE IF e1.kind = "File" /\ e2.kind = "File" THEN FileEntryCmp(f, e1, e2, acc)
    ELSE [kind |-> "NotFound", entry |-> e1, path |-> e2.path]

EntryCmp(f, e1, e2, acc) ==
    IF e1.kind = "Dir" /\ e2.kind = "Dir" THEN DirEntryCmp(f, e1, e2, acc)
    ELSE IF e1.kind = "File" /\ e2.kind = "File" THEN FileEntryCmp(f, e1, e2, acc)
    ELSE CmpErr({"Mismatch"})

RECURSIVE DirEntryCmpLoop_NoLatch(_, _, _, _, _, _, _)
\* variant: is_same is assigned at every child, also after a difference was found
DirEntryCmpLoop_NoLatch(f, d1, d2, acc, o, is_same, entries) ==
    IF o = <<>>
    THEN [kind |-> "Dir", source |-> d1, dest |-> d2,
          diff |-> IF is_same THEN "Same" ELSE "Different",
          entries |-> entries]
    ELSE LET name == Head(o)
             cmp_res == IF name \in DOMAIN d2.entries
                        THEN EntryCmp(f, d1.entries[name], d2.entries[name], acc)
                        ELSE NotFound(d1.entries[name], d2)
         IN  IF cmp_res.kind = "Err" THEN cmp_res
             ELSE DirEntryCmpLoop_NoLatch(f, d1, d2, acc, Tail(o),
                                          IsSameDelta(cmp_res),
                                          (name :> cmp_res) @@ entries)

RECURSIVE DirEntryCmpLoop(_, _, _, _, _, _, _)
\* the loop of DirEntry::cmp with the names of d1 still to visit in o, in the
\* order the map yields them: `cmp_res?` returns at the first failure, is_same
\* is looked at only while it is true, every result is inserted
DirEntryCmpLoop(f, d1, d2, acc, o, is_same, entries) ==
    IF o = <<>>
    THEN [kind |-> "Dir", source |-> d1, dest |-> d2,
          diff |-> IF is_same THEN "Same" ELSE "Different",
          entries |-> entries]
    ELSE LET name == Head(o)
             cmp_res == IF name \in DOMAIN d2.entries
                        THEN EntryCmp(f, d1.entries[name], d2.entries[name], acc)
                        ELSE NotFound(d1.entries[name], d2)
         IN  IF cmp_res.kind = "Err" THEN cmp_res
             ELSE DirEntryCmpLoop(f, d1, d2, acc, Tail(o),
                                  IF is_same THEN IsSameDelta(cmp_res) ELSE FALSE,
                                  (name :> cmp_res) @@ entries)

\* DirEntry::cmp when the map of d1 is iterated in the order o
DirEntryCmpIn(f, d1, d2, acc, o) == DirEntryCmpLoop(f, d1, d2, acc, o, TRUE, <<>>)

\* variant: a directory delta is none when no child delta is recorded
is_none_Empty(d) == DOMAIN d.entries = {}
\* DirDelta::is_none
is_none(d) == d.diff = "Same"
\* variant: every file that is not Same is copied
is_newer_NotSame(d) == d.diff # "Same"
\* variant: the test is inverted
is_newer_Older(d) == d.diff = "Older"
\* FileDelta::is_newer
is_newer(d) == d.diff = "Newer"

----------------------------------------------------------------------------
(* Filesystem operations used by the reconciliation *)

\* fs::create_dir: the directory must not exist and its parent must be a directory
CanCreateDir(f, p) == ~Exists(f, p) /\ IsDir(f, Parent(p))
CreateDir(f, p) == Put(f, p, DirNode)

\* `cp -p from to`: a target that is a directory receives the file under its name
CpTarget(f, from, to) == IF IsDir(f, to) THEN Join(to, FileName(from)) ELSE to
CanCp(f, from, to) ==
    /\ IsFile(f, from)
    /\ IsDir(f, Parent(CpTarget(f, from, to)))
    /\ ~IsDir(f, CpTarget(f, from, to))
\* variant: `cp` without -p, the copy gets the current time
Cp_NoPreserve(f, from, to) ==
    Put(f, CpTarget(f, from, to), FileNode(1 + CHOOSE t \in Times : \A u \in Times : u <= t))
\* `cp` reads through a symbolic link; -p gives the copy the time of what it read
Cp(f, from, to) == Put(f, CpTarget(f, from, to), FileNode(Modified(f, from)))

\* the time of a write made during the run: later than every file's time
Now == 1 + CHOOSE t \in Times : \A u \in Times : u <= t
\* a `cp` that fails after it opened its target leaves a file written just now
CpPartial(f, from, to) == Put(f, CpTarget(f, from, to), FileNode(Now))

OpCreateDir(p, ok) == [op |-> "create_dir", from |-> <<>>, to |-> p, ok |-> ok]
OpCp(from, to, ok) == [op |-> "cp", from |-> from, to |-> to, ok |-> ok]

----------------------------------------------------------------------------
(* Initial states *)

NoDelta == [kind |-> "None"]
NoProbe == [s |-> 0, d |-> 0, acc |-> 0, acc2 |-> 0, result |-> "unused", result2 |-> "unused",
            reversed |-> "unused"]

RelPaths == UNION {[1..n -> Names] : n \in 1..MaxPaths}

RECURSIVE ShapesUpTo(_)
\* the prefix-closed sets of at most k relative paths
ShapesUpTo(k) ==
    IF k = 0 THEN {{}}
    ELSE LET smaller == ShapesUpTo(k - 1)
         IN  smaller \cup
             UNION {{P \cup {q} : q \in {r \in RelPaths : Len(r) = 1 \/ Parent(r) \in P}}
                        : P \in smaller}

Shapes == ShapesUpTo(MaxPaths)

NodeValues == {DirNode} \cup {FileNode(t) : t \in Times}

\* the filesystem trees of shape P: a path with children is a directory
TreesOf(P) ==
    {t \in [P -> NodeValues] :
        \A p \in P : (\E q \in P : Len(q) = Len(p) + 1 /\ Parent(q) = p)
                        => t[p].kind = "dir"}

MkFs(ts, td) ==
    [q \in {SrcRoot, DstRoot} \cup {SrcRoot \o p : p \in DOMAIN ts}
                              \cup {DstRoot \o p : p \in DOMAIN td} |->
        IF Len(q) = 1 THEN DirNode
        ELSE IF q[1] = SrcRoot[1] THEN ts[Tail(q)] ELSE td[Tail(q)]]

\* Entry names are interchangeable: of the trees that differ only by a renaming
\* of the entries of some directory, the one that uses "a" before "b" is taken.
Canonical(P) == \A p \in P : FileName(p) = "b" => Join(Parent(p), "a") \in P

Init ==
    /\ \E Ps \in Shapes, Pd \in Shapes :
          /\ Cardinality(Ps \cup Pd) <= MaxPaths
          /\ Canonical(Ps \cup Pd)
          /\ \E ts \in TreesOf(Ps), td \in TreesOf(Pd) : fs = MkFs(ts, td)
    /\ fs0 = fs
    /\ accuracy \in Tols
    /\ source = NoEntry
    /\ dest = NoEntry
    /\ delta = NoDelta
    /\ delta2 = NoDelta
    /\ stack = <<>>
    /\ ops = <<>>
    /\ pc = "start"
    /\ probe = NoProbe
    /\ ignore = IGNORE
    /\ unreadable = {}

----------------------------------------------------------------------------
(* The run: build the two trees, compare them, reconcile *)

BuildSource ==
    /\ pc = "start"
    /\ source' = DirEntryNew(fs, SrcRoot, ignore)
    /\ pc' = IF source'.kind = "Err" THEN "failed" ELSE "source_built"
    /\ UNCHANGED <<fs, fs0, accuracy, dest, delta, stack, ops, delta2, probe, ignore, unreadable>>

\* variant: a destination root that is missing is created by the build
BuildDest_CreateRoot ==
    /\ pc = "source_built"
    /\ IF ~Exists(fs, DstRoot)
       THEN /\ fs' = CreateDir(fs, DstRoot)
            /\ ops' = Append(ops, OpCreateDir(DstRoot, TRUE))
       ELSE UNCHANGED <<fs, ops>>
    /\ dest' = DirEntryNew(fs', DstRoot, IGNORE)
    /\ pc' = IF dest'.kind = "Err" THEN "failed" ELSE "built"
    /\ UNCHANGED <<fs0, accuracy, source, delta, stack, delta2, probe, ignore, unreadable>>

BuildDest ==
    /\ pc = "source_built"
    /\ dest' = DirEntryNew(fs, DstRoot, IGNORE)
    /\ pc' = IF dest'.kind = "Err" THEN "failed" ELSE "built"
    /\ UNCHANGED <<fs, fs0, accuracy, source, delta, stack, ops, delta2, probe, ignore, unreadable>>

ClearTask(d) == [t |-> "clear", d |-> d]
CopyTask(e, to) == [t |-> "copy", e |-> e, to |-> to]

RECURSIVE FilePairs(_, _)
\* the files whose metadata a complete comparison of e1 with e2 reads
FilePairs(e1, e2) ==
    IF e1.kind = "Dir" /\ e2.kind = "Dir"
    THEN UNION {FilePairs(e1.entries[n], e2.entries[n]) :
                    n \in DOMAIN e1.entries \cap DOMAIN e2.entries}
    ELSE IF e1.kind = "File" /\ e2.kind = "File" THEN {e1.path, e2.path}
    ELSE {}

\* the filesystem as seen by metadata reads that fail for the paths in bad
Unreadable(f, bad) == [q \in DOMAIN f \ bad |-> f[q]]

\* source.cmp(&dest, &accuracy): Ok(delta), Err(error), or a panic that returns
\* nothing. At most MaxUnreadable metadata reads fail.
Compare ==
    /\ pc = "built"
    /\ \E bad \in {b \in SUBSET FilePairs(source, dest) : Cardinality(b) <= MaxUnreadable} :
          /\ unreadable' = bad
          /\ LET r == EntryCmp(Unreadable(fs, bad), source, dest, accuracy)
             IN  IF r.kind = "Err"
                 THEN \E e \in r.errs :
                         /\ pc' = IF e = "Panic" THEN "panicked" ELSE "failed"
                         /\ delta' = IF e = "Panic" THEN delta ELSE CmpErr({e})
                         /\ UNCHANGED stack
                 ELSE /\ delta' = r
                      /\ stack' = <<ClearTask(r)>>
                      /\ pc' = "clearing"
    /\ UNCHANGED <<fs, fs0, accuracy, source, dest, ops, delta2, probe, ignore>>

\* the orders in which a map with the keys S can be iterated
Orders(S) ==
    {o \in [1..Cardinality(S) -> S] : \A i, j \in 1..Cardinality(S) : o[i] = o[j] => i = j}

Top == stack[1]
Rest == Tail(stack)
After(stk) == IF stk = <<>> THEN "done" ELSE "clearing"

Running == pc = "clearing" /\ stack # <<>>

\* variant: the error of an operation is dropped and the walk goes on
Abort_Continue ==
    /\ stack' = Rest
    /\ pc' = After(stack')
    /\ UNCHANGED fs

\* a filesystem operation returned an error: it propagates through every caller
Abort ==
    /\ pc' = "failed"
    /\ stack' = <<>>
    /\ UNCHANGED fs

\* clear on EntryDelta::Dir
ClearDir ==
    /\ Running
    /\ Top.t = "clear" /\ Top.d.kind = "Dir"
    /\ IF ~is_none(Top.d)
       THEN \E o \in Orders(DOMAIN Top.d.entries) :
               stack' = [i \in 1..Len(o) |-> ClearTask(Top.d.entries[o[i]])] \o Rest
       ELSE stack' = Rest
    /\ pc' = After(stack')
    /\ UNCHANGED <<fs, fs0, accuracy, source, dest, delta, ops, delta2, probe, ignore, unreadable>>

\* FileEntry::copy
FileCopy(from, to) ==
    \/ /\ CanCp(fs, from, to)
       /\ fs' = Cp(fs, from, to)
       /\ ops' = Append(ops, OpCp(from, to, TRUE))
       /\ stack' = Rest
       /\ pc' = After(stack')
    \/ /\ ops' = Append(ops, OpCp(from, to, FALSE))
       /\ Abort
    \/ /\ CanCp(fs, from, to)
       /\ fs' = CpPartial(fs, from, to)
       /\ ops' = Append(ops, OpCp(from, to, FALSE))
       /\ pc' = "failed"
       /\ stack' = <<>>

\* variant: the copy goes from the destination to the source
ClearFile_Reversed ==
    /\ Running
    /\ Top.t = "clear" /\ Top.d.kind = "File"
    /\ IF is_newer(Top.d)
       THEN FileCopy(Top.d.dest.path, Top.d.source.path)
       ELSE /\ stack' = Rest
            /\ pc' = After(stack')
            /\ UNCHANGED <<fs, ops>>
    /\ UNCHANGED <<fs0, accuracy, source, dest, delta, delta2, probe, ignore, unreadable>>

\* clear on EntryDelta::File
ClearFile ==
    /\ Running
    /\ Top.t = "clear" /\ Top.d.kind = "File"
    /\ IF is_newer(Top.d)
       THEN FileCopy(Top.d.source.path, Top.d.dest.path)
       ELSE /\ stack' = Rest
            /\ pc' = After(stack')
            /\ UNCHANGED <<fs, ops>>
    /\ UNCHANGED <<fs0, accuracy, source, dest, delta, delta2, probe, ignore, unreadable>>

\* clear on EntryDelta::NotFound: Entry::copy of the carried entry
ClearNotFound ==
    /\ Running
    /\ Top.t = "clear" /\ Top.d.kind = "NotFound"
    /\ stack' = <<CopyTask(Top.d.entry, Top.d.path)>> \o Rest
    /\ pc' = "clearing"
    /\ UNCHANGED <<fs, fs0, accuracy, source, dest, delta, ops, delta2, probe, ignore, unreadable>>

\* FileEntry::copy called by Entry::copy or DirEntry::copy
CopyFile ==
    /\ Running
    /\ Top.t = "copy" /\ Top.e.kind = "File"
    /\ FileCopy(Top.e.path, Top.to)
    /\ UNCHANGED <<fs0, accuracy, source, dest, delta, delta2, probe, ignore, unreadable>>

\* variant: the directory is copied as it is on disk, not as the tree records it
CopyDir_FromDisk ==
    /\ Running
    /\ Top.t = "copy" /\ Top.e.kind = "Dir"
    /\ LET disk == Visit(fs, Top.e.path, IGNORE)
           children(o) == [i \in 1..Len(o) |-> CopyTask(disk[o[i]], Join(Top.to, o[i]))]
       IN  IF ~IsDir(fs, Top.to)
           THEN \/ /\ CanCreateDir(fs, Top.to)
                   /\ fs' = CreateDir(fs, Top.to)
                   /\ ops' = Append(ops, OpCreateDir(Top.to, TRUE))
                   /\ \E o \in Orders(DOMAIN disk) : stack' = children(o) \o Rest
                   /\ pc' = After(stack')
                \/ /\ ops' = Append(ops, OpCreateDir(Top.to, FALSE))
                   /\ Abort
           ELSE /\ \E o \in Orders(DOMAIN disk) : stack' = children(o) \o Rest
                /\ pc' = After(stack')
                /\ UNCHANGED <<fs, ops>>
    /\ UNCHANGED <<fs0, accuracy, source, dest, delta, delta2, probe, ignore, unreadable>>

\* DirEntry::copy: create the directory unless it is there, then copy each entry
CopyDir ==
    /\ Running
    /\ Top.t = "copy" /\ Top.e.kind = "Dir"
    /\ LET children(o) == [i \in 1..Len(o) |->
                              CopyTask(Top.e.entries[o[i]], Join(Top.to, o[i]))]
       IN  IF ~IsDir(fs, Top.to)
           THEN \/ /\ CanCreateDir(fs, Top.to)
                   /\ fs' = CreateDir(fs, Top.to)
                   /\ ops' = Append(ops, OpCreateDir(Top.to, TRUE))
                   /\ \E o \in Orders(DOMAIN Top.e.entries) : stack' = children(o) \o Rest
                   /\ pc' = After(stack')
                \/ /\ ops' = Append(ops, OpCreateDir(Top.to, FALSE))
                   /\ Abort
           ELSE /\ \E o \in Orders(DOMAIN Top.e.entries) : stack' = children(o) \o Rest
                /\ pc' = After(stack')
                /\ UNCHANGED <<fs, ops>>
    /\ UNCHANGED <<fs0, accuracy, source, dest, delta, delta2, probe, ignore, unreadable>>

\* a second run over the reconciled destination: rebuild its tree and compare
Recheck ==
    /\ pc = "done"
    /\ delta2' = EntryCmp(fs, source, DirEntryNew(fs, DstRoot, IGNORE), accuracy)
    /\ pc' = "rechecked"
    /\ UNCHANGED <<fs, fs0, accuracy, source, dest, delta, stack, ops, probe, ignore, unreadable>>

Next ==
    \/ BuildSource
    \/ BuildDest
    \/ Compare
    \/ ClearDir
    \/ ClearFile
    \/ ClearNotFound
    \/ CopyFile
    \/ CopyDir
    \/ Recheck

Spec == Init /\ [][Next]_vars

----------------------------------------------------------------------------
(* file_cmp_modified on its own: every pair of durations up to MaxProbe,    *)
(* compared with two accuracies up to MaxProbe                              *)

InitProbe ==
    /\ probe \in [s : 0..MaxProbe, d : 0..MaxProbe, acc : 0..MaxProbe,
                  acc2 : 0..MaxProbe, result : {"none"}, result2 : {"none"},
                  reversed : {"none"}]
    /\ fs = MkFs(<<>>, <<>>)
    /\ fs0 = fs
    /\ accuracy = 0
    /\ source = NoEntry
    /\ dest = NoEntry
    /\ delta = NoDelta
    /\ delta2 = NoDelta
    /\ stack = <<>>
    /\ ops = <<>>
    /\ pc = "probe"
    /\ ignore = IGNORE
    /\ unreadable = {}

ProbeFileCmp ==
    /\ pc = "probe"
    /\ probe.result = "none"
    /\ probe' = [probe EXCEPT !.result = file_cmp_modified(probe.s, probe.d, probe.acc)]
    /\ UNCHANGED <<fs, fs0, accuracy, source, dest, delta, stack, ops, pc, delta2, ignore, unreadable>>

\* the same two durations compared with a second accuracy
ProbeFileCmpAgain ==
    /\ pc = "probe"
    /\ probe.result2 = "none"
    /\ probe' = [probe EXCEPT !.result2 = file_cmp_modified(probe.s, probe.d, probe.acc2)]
    /\ UNCHANGED <<fs, fs0, accuracy, source, dest, delta, stack, ops, pc, delta2, ignore, unreadable>>

\* the two durations compared the other way round, same accuracy
ProbeFileCmpReversed ==
    /\ pc = "probe"
    /\ probe.reversed = "none"
    /\ probe' = [probe EXCEPT !.reversed = file_cmp_modified(probe.d, probe.s, probe.acc)]
    /\ UNCHANGED <<fs, fs0, accuracy, source, dest, delta, stack, ops, pc, delta2, ignore, unreadable>>

NextProbe == ProbeFileCmp \/ ProbeFileCmpAgain \/ ProbeFileCmpReversed

SpecProbe == InitProbe /\ [][NextProbe]_vars

----------------------------------------------------------------------------
(* FileEntry::copy on its own, as tests::test_cmp_files uses it: one file of *)
(* a directory tree is copied to any path, then the file and its copy are   *)
(* compared in both directions                                              *)

InitCopy ==
    /\ \E Ps \in Shapes :
          /\ Canonical(Ps)
          /\ \E ts \in TreesOf(Ps) : fs = MkFs(ts, <<>>)
    /\ fs0 = fs
    /\ accuracy \in Tols
    /\ source = NoEntry
    /\ dest = NoEntry
    /\ delta = NoDelta
    /\ delta2 = NoDelta
    /\ stack = <<>>
    /\ ops = <<>>
    /\ pc = "copy_start"
    /\ probe = NoProbe
    /\ ignore = IGNORE
    /\ unreadable = {}

\* the paths a copy can be given: an existing entry, or a new name in a directory
CopyTargets(f) ==
    DOMAIN f \cup {Join(d, n) : d \in {q \in DOMAIN f : IsDir(f, q)}, n \in Names}

\* older.copy(path): `cp` refuses to copy a file onto itself
FileEntryCopy ==
    /\ pc = "copy_start"
    /\ \E from \in {q \in DOMAIN fs : IsFile(fs, q)}, to \in CopyTargets(fs) :
          \/ /\ CanCp(fs, from, to)
             /\ CpTarget(fs, from, to) # from
             /\ fs' = Cp(fs, from, to)
             /\ ops' = <<OpCp(from, to, TRUE)>>
             /\ pc' = "copied"
          \/ /\ ops' = <<OpCp(from, to, FALSE)>>
             /\ pc' = "failed"
             /\ UNCHANGED fs
    /\ UNCHANGED <<fs0, accuracy, source, dest, delta, stack, delta2, probe, ignore, unreadable>>

\* where the copy made by the one operation of ops is
CopyPath == CpTarget(fs0, ops[1].from, ops[1].to)

\* older.cmp(&copy, &accuracy) and copy.cmp(&older, &accuracy)
CmpCopy ==
    /\ pc = "copied"
    /\ LET older == FileEntryNew(fs, ops[1].from)
           copy == FileEntryNew(fs, CopyPath)
       IN  /\ delta' = FileEntryCmp(fs, older, copy, accuracy)
           /\ delta2' = FileEntryCmp(fs, copy, older, accuracy)
    /\ pc' = "copy_compared"
    /\ UNCHANGED <<fs, fs0, accuracy, source, dest, stack, ops, probe, ignore, unreadable>>

NextCopy == FileEntryCopy \/ CmpCopy

SpecCopy == InitCopy /\ [][NextCopy]_vars

----------------------------------------------------------------------------
(* Tree building with an ignore filter, as tests::test_entries_to_ignore     *)
(* does it: a source directory with an ignore file, entries of every type   *)
(* and an empty destination; the trees are built and compared               *)

IgnoreFile == Join(SrcRoot, ".bkignore")
Pattern(glob, dir_only) == [glob |-> glob, dir_only |-> dir_only]

\* the contents of the ignore file
Filters ==
    { {},
      {Pattern("*.tmp", FALSE)},
      {Pattern("a.txt", FALSE)},
      {Pattern("sub", FALSE)},
      {Pattern("sub", TRUE)},
      {Pattern("a.tmp", TRUE)},
      {Pattern(".bkignore", FALSE)},
      {Pattern("*.tmp", FALSE), Pattern("sub", TRUE)} }

\* the entries of the source directory, besides the ignore file
BuildPaths == {<<"a.tmp">>, <<"a.txt">>, <<"sub">>, <<"sub", "a.tmp">>, <<"sub", "a.txt">>}
BuildShapes == {P \in SUBSET BuildPaths : \A q \in P : Len(q) > 1 => Parent(q) \in P}

\* a directory outside the two roots, for the symbolic links to point into
ExtRoot == <<"ext">>
ExtFs ==
    (ExtRoot :> DirNode) @@ (<<"ext", "f">> :> FileNode(0)) @@
    (<<"ext", "d">> :> DirNode) @@ (<<"ext", "d", "a.txt">> :> FileNode(0))
\* a link to a file, a link to a directory, a link to nothing
LinkTargets == {<<"ext", "f">>, <<"ext", "d">>, <<"ext", "gone">>}

BuildNodes == {DirNode, FileNode(0), SpecialNode} \cup {SymlinkNode(t) : t \in LinkTargets}

BuildTreesOf(P) ==
    {t \in [P -> BuildNodes] :
        \A q \in P : (\E c \in P : Len(c) = Len(q) + 1 /\ Parent(c) = q) => t[q].kind = "dir"}

MkBuildFs(ts, with_ignore_file) ==
    LET tree == [q \in {SrcRoot \o r : r \in DOMAIN ts} |-> ts[Tail(q)]]
        roots == (SrcRoot :> DirNode) @@ (DstRoot :> DirNode)
    IN  IF with_ignore_file
        THEN tree @@ (IgnoreFile :> FileNode(0)) @@ roots @@ ExtFs
        ELSE tree @@ roots @@ ExtFs

InitBuild ==
    /\ \E P \in BuildShapes : \E ts \in BuildTreesOf(P) :
          \/ /\ ignore \in {Gitignore(ps) : ps \in Filters}
             /\ fs = MkBuildFs(ts, TRUE)
          \/ /\ ignore = IGNORE
             /\ fs \in {MkBuildFs(ts, TRUE), MkBuildFs(ts, FALSE)}
    /\ fs0 = fs
    /\ accuracy = 0
    /\ source = NoEntry
    /\ dest = NoEntry
    /\ delta = NoDelta
    /\ delta2 = NoDelta
    /\ stack = <<>>
    /\ ops = <<>>
    /\ pc = "start"
    /\ probe = NoProbe
    /\ unreadable = {}

NextBuild == BuildSource \/ BuildDest \/ Compare

SpecBuild == InitBuild /\ [][NextBuild]_vars

----------------------------------------------------------------------------
(* A whole run with an ignore filter: the source holds the ignore file and  *)
(* a directory sub, the destination is empty or holds a copy of the ignore  *)
(* file, so sub is copied as a whole                                        *)

IgnorePaths ==
    {<<"sub">>, <<"sub", "a.tmp">>, <<"sub", "a.txt">>, <<"sub", "sub">>,
     <<"sub", "sub", "a.tmp">>}
IgnoreShapes ==
    {P \in SUBSET IgnorePaths : <<"sub">> \in P /\ \A q \in P : Len(q) > 1 => Parent(q) \in P}

InitIgnore ==
    /\ \E P \in IgnoreShapes : \E ts \in BuildTreesOf(P) :
          /\ IsDir(MkBuildFs(ts, TRUE), <<"src", "sub">>)
          /\ fs \in {MkBuildFs(ts, TRUE),
                     Put(MkBuildFs(ts, TRUE), Join(DstRoot, ".bkignore"), FileNode(0))}
    /\ ignore \in {Gitignore(ps) : ps \in Filters}
    /\ fs0 = fs
    /\ accuracy = 0
    /\ source = NoEntry
    /\ dest = NoEntry
    /\ delta = NoDelta
    /\ delta2 = NoDelta
    /\ stack = <<>>
    /\ ops = <<>>
    /\ pc = "start"
    /\ probe = NoProbe
    /\ unreadable = {}

SpecIgnore == InitIgnore /\ [][Next]_vars

----------------------------------------------------------------------------
(* Tree building step by step, one call of visit per step, on a source with *)
(* symbolic links to itself, to its ancestors and to its other entries      *)

\* the source trees of shape P: an entry is a directory, a file, or a link to
\* the root or to any entry of the tree, itself included
VisitTreesOf(P) ==
    {t \in [P -> {DirNode, FileNode(0)} \cup
                 {SymlinkNode(SrcRoot \o r) : r \in P \cup {<<>>}}] :
        \A q \in P : (\E c \in P : Len(c) = Len(q) + 1 /\ Parent(c) = q) => t[q].kind = "dir"}

InitVisit ==
    /\ \E P \in Shapes :
          /\ Canonical(P)
          /\ \E ts \in VisitTreesOf(P) : fs = MkFs(ts, <<>>)
    /\ fs0 = fs
    /\ accuracy = 0
    /\ source = NoEntry
    /\ dest = NoEntry
    /\ delta = NoDelta
    /\ delta2 = NoDelta
    /\ stack = <<>>
    /\ ops = <<>>
    /\ pc = "start"
    /\ probe = NoProbe
    /\ ignore = IGNORE
    /\ unreadable = {}

OpVisit(p) == [op |-> "visit", from |-> <<>>, to |-> p, ok |-> TRUE]

\* DirEntry::new: the root must be a directory, then it is visited
VisitStart ==
    /\ pc = "start"
    /\ IF IsDir(fs, SrcRoot)
       THEN stack' = <<SrcRoot>> /\ pc' = "visiting"
       ELSE stack' = <<>> /\ pc' = "failed"
    /\ UNCHANGED <<fs, fs0, accuracy, source, dest, delta, ops, delta2, probe, ignore, unreadable>>

\* one call of visit: the directory on top is read, and DirEntry::new is
\* called for each child that is_dir and is not ignored, before anything that
\* was pending; the tree is returned with the last call. The paths visited do
\* not depend on read_dir's order: one order is taken.
VisitDir ==
    /\ pc = "visiting"
    /\ stack # <<>>
    /\ LET dirs == {q \in ReadDir(fs, Top) : ~Ignored(ignore, q, IsDir(fs, q)) /\ IsDir(fs, q)}
       IN  stack' = (CHOOSE o \in Orders(dirs) : TRUE) \o Rest
    /\ ops' = Append(ops, OpVisit(Top))
    /\ IF stack' = <<>>
       THEN pc' = "visited" /\ source' = DirEntryNew(fs, SrcRoot, ignore)
       ELSE pc' = "visiting" /\ UNCHANGED source
    /\ UNCHANGED <<fs, fs0, accuracy, dest, delta, delta2, probe, ignore, unreadable>>

NextVisit == VisitStart \/ VisitDir

SpecVisit == InitVisit /\ [][NextVisit]_vars

----------------------------------------------------------------------------
(* The run given any two paths: a root is a directory, a regular file, or   *)
(* missing. Modification times are compared exactly.                        *)

RootKinds == {"dir", "file", "none"}

\* the filesystem of MkFs with the roots of the kinds rs and rd
MkRunFs(ts, td, rs, rd) ==
    LET base == MkFs(ts, td)
        gone == (IF rs = "none" THEN {SrcRoot} ELSE {}) \cup
                (IF rd = "none" THEN {DstRoot} ELSE {})
    IN  [q \in DOMAIN base \ gone |->
            IF q = SrcRoot /\ rs = "file" THEN FileNode(0)
            ELSE IF q = DstRoot /\ rd = "file" THEN FileNode(0)
            ELSE base[q]]

InitRun ==
    /\ \E rs \in RootKinds, rd \in RootKinds, Ps \in Shapes, Pd \in Shapes :
          /\ rs # "dir" => Ps = {}
          /\ rd # "dir" => Pd = {}
          /\ Cardinality(Ps \cup Pd) <= MaxPaths
          /\ Canonical(Ps \cup Pd)
          /\ \E ts \in TreesOf(Ps), td \in TreesOf(Pd) : fs = MkRunFs(ts, td, rs, rd)
    /\ fs0 = fs
    /\ accuracy = 0
    /\ source = NoEntry
    /\ dest = NoEntry
    /\ delta = NoDelta
    /\ delta2 = NoDelta
    /\ stack = <<>>
    /\ ops = <<>>
    /\ pc = "start"
    /\ probe = NoProbe
    /\ ignore = IGNORE
    /\ unreadable = {}

SpecRun == InitRun /\ [][Next]_vars

----------------------------------------------------------------------------
(* The earliest revision (src/main.rs): the two trees are built and         *)
(* compared, nothing is copied; a comparison yields a status, no delta tree *)

\* FileEntry::cmp of main.rs: the names must be equal, the times are compared
\* exactly
Main_FileEntryCmp(f, e1, e2) ==
    IF FileName(e1.path) # FileName(e2.path) THEN CmpErr({"Filenames"})
    ELSE IF Real(f, e1.path) = <<>> \/ Real(f, e2.path) = <<>> THEN CmpErr({"Metadata"})
    ELSE LET t1 == Modified(f, e1.path)
             t2 == Modified(f, e2.path)
         IN  [kind |-> "File",
              diff |-> IF t1 < t2 THEN "Older" ELSE IF t1 > t2 THEN "Newer" ELSE "Same"]

RECURSIVE Main_EntryCmp(_, _, _)
\* DirEntry::cmp of main.rs: every result is pushed, Ok or Err;
\* filter_map(|d| d.ok()) then drops the Err ones and all() judges the rest
Main_DirEntryCmp(f, d1, d2) ==
    LET results == [name \in DOMAIN d1.entries |->
                        IF name \in DOMAIN d2.entries
                        THEN Main_EntryCmp(f, d1.entries[name], d2.entries[name])
                        ELSE [kind |-> "NotFound"]]
        oks == {name \in DOMAIN results : results[name].kind # "Err"}
        is_same == \A name \in oks :
                      /\ results[name].kind \in {"Dir", "File"}
                      /\ results[name].diff = "Same"
    IN  [kind |-> "Dir", diff |-> IF is_same THEN "Same" ELSE "Different"]

\* Entry::cmp of main.rs
Main_EntryCmp(f, e1, e2) ==
    IF e1.kind = "Dir" /\ e2.kind = "Dir" THEN Main_DirEntryCmp(f, e1, e2)
    ELSE IF e1.kind = "File" /\ e2.kind = "File" THEN Main_FileEntryCmp(f, e1, e2)
    ELSE CmpErr({"Mismatch"})

\* left.cmp(&right)?, where at most MaxUnreadable metadata reads fail
MainCompare ==
    /\ pc = "built"
    /\ \E bad \in {b \in SUBSET FilePairs(source, dest) : Cardinality(b) <= MaxUnreadable} :
          /\ unreadable' = bad
          /\ delta' = Main_EntryCmp(Unreadable(fs, bad), source, dest)
    /\ pc' = "main_compared"
    /\ UNCHANGED <<fs, fs0, accuracy, source, dest, stack, ops, delta2, probe, ignore>>

NextMain == BuildSource \/ BuildDest \/ MainCompare

SpecMain == InitRun /\ [][NextMain]_vars

----------------------------------------------------------------------------
(* Helpers of the properties *)

\* the delta recorded for the relative path r, NoDelta when there is none
RECURSIVE DeltaAt(_, _)
DeltaAt(d, r) ==
    IF r = <<>> THEN d
    ELSE IF d.kind = "Dir" /\ Head(r) \in DOMAIN d.entries
         THEN DeltaAt(d.entries[Head(r)], Tail(r))
         ELSE NoDelta

\* every delta node of a delta tree
RECURSIVE DeltaNodes(_)
DeltaNodes(d) ==
    IF d.kind = "Dir"
    THEN {d} \cup UNION {DeltaNodes(d.entries[n]) : n \in DOMAIN d.entries}
    ELSE {d}

\* every entry of an Entry tree
RECURSIVE EntryNodes(_)
EntryNodes(e) ==
    IF e.kind = "Dir"
    THEN {e} \cup UNION {EntryNodes(e.entries[n]) : n \in DOMAIN e.entries}
    ELSE {e}

\* the relative paths below the roots
RelOf(p) == Tail(p)
InSrc(p) == IsPrefix(SrcRoot, p)
InDst(p) == IsPrefix(DstRoot, p)
SrcPath(r) == SrcRoot \o r
DstPath(r) == DstRoot \o r

Compared == delta.kind = "Dir"
JustCompared == pc = "clearing" /\ stack = <<ClearTask(delta)>>

----------------------------------------------------------------------------
(* C1: file_cmp_modified returns Newer iff t_s > t_d and t_s - tol > t_d,
   Older iff t_d > t_s and t_d - tol > t_s, and Same in every other case,
   for all modification times and every tolerance. *)
C1_Expected(s, d, acc) ==
    IF s > d /\ s - acc > d THEN "Newer"
    ELSE IF d > s /\ d - acc > s THEN "Older"
    ELSE "Same"

C1_FileCmpContract ==
    probe.result # "none" => probe.result = C1_Expected(probe.s, probe.d, probe.acc)

----------------------------------------------------------------------------
(* C2: clear on a File delta classified Older or Same issues no copy: the
   destination file of such a delta is the target of no operation and keeps
   the node it had before the run. *)
C2_OlderOrSameNotCopied ==
    Compared =>
        \A n \in DeltaNodes(delta) :
            (n.kind = "File" /\ n.diff \in {"Older", "Same"}) =>
                /\ \A i \in 1..Len(ops) : ops[i].to # n.dest.path
                /\ fs[n.dest.path] = fs0[n.dest.path]

\* a finished reconciliation that copied something and left an Older file alone
C2_Witness ==
    /\ pc = "done"
    /\ ops # <<>>
    /\ \E n \in DeltaNodes(delta) : n.kind = "File" /\ n.diff = "Older"

----------------------------------------------------------------------------
(* C3: for every child of a source directory that has no entry of the same
   name in the destination directory, at every depth, the delta records a
   NotFound that carries the entire source sub-entry and the destination
   directory's path joined with the child's name. *)
RECURSIVE EntryAt(_, _)
EntryAt(e, r) ==
    IF r = <<>> THEN e
    ELSE IF e.kind = "Dir" /\ Head(r) \in DOMAIN e.entries
         THEN EntryAt(e.entries[Head(r)], Tail(r))
         ELSE NoEntry

C3_NotFoundCarriesSubtree ==
    Compared =>
        \A r \in RelPaths :
            (/\ Exists(fs0, SrcPath(r))
             /\ ~Exists(fs0, DstPath(r))
             /\ IsDir(fs0, Parent(DstPath(r)))) =>
                LET d == DeltaAt(delta, r)
                IN  /\ d.kind = "NotFound"
                    /\ d.path = DstPath(r)
                    /\ d.entry = EntryAt(source, r)
                    /\ {e.path : e \in EntryNodes(d.entry)} =
                           {q \in DOMAIN fs0 : IsPrefix(SrcPath(r), q)}

\* source a/a/..., destination with an empty a: Dir{a: NotFound(a)} at dst/a/a
C3_Witness ==
    /\ Compared
    /\ DeltaAt(delta, <<"a", "a">>).kind = "NotFound"
    /\ DeltaAt(delta, <<"a", "a">>).path = <<"dst", "a", "a">>
    /\ DeltaAt(delta, <<"a", "a">>).entry.kind = "Dir"
    /\ DOMAIN DeltaAt(delta, <<"a", "a">>).entry.entries # {}

----------------------------------------------------------------------------
(* C4: after a successful clear, every entry carried by a NotFound delta is
   in the destination at the same relative path below the NotFound's path:
   a directory was created there, a file was copied there and has the
   source file's modification time. *)
C4_Target(n, e) == n.path \o SubSeq(e.path, Len(n.entry.path) + 1, Len(e.path))

C4_NotFoundCopied ==
    pc = "done" =>
        \A n \in DeltaNodes(delta) :
            n.kind = "NotFound" =>
                \A e \in EntryNodes(n.entry) :
                    IF e.kind = "Dir"
                    THEN /\ IsDir(fs, C4_Target(n, e))
                         /\ \E i \in 1..Len(ops) : ops[i] = OpCreateDir(C4_Target(n, e), TRUE)
                    ELSE /\ IsFile(fs, C4_Target(n, e))
                         /\ fs[C4_Target(n, e)].mtime = fs[e.path].mtime
                         /\ \E i \in 1..Len(ops) : ops[i] = OpCp(e.path, C4_Target(n, e), TRUE)

\* a missing directory with a file of time 2 in it was copied as a whole
C4_Witness ==
    /\ pc = "done"
    /\ DeltaAt(delta, <<"a">>).kind = "NotFound"
    /\ DeltaAt(delta, <<"a">>).entry.kind = "Dir"
    /\ IsFile(fs0, <<"src", "a", "b">>)
    /\ fs0[<<"src", "a", "b">>].mtime = 2
    /\ IsFile(fs, <<"dst", "a", "b">>)

----------------------------------------------------------------------------
(* C5 as stated: after a successful clear, comparing the source tree with
   the rebuilt destination tree, same tolerance, yields an empty delta:
   status Same and no difference recorded. *)
C5_RecheckIsEmpty ==
    pc = "rechecked" =>
        /\ delta2.kind = "Dir"
        /\ delta2.diff = "Same"
        /\ \A n \in DeltaNodes(delta2) : IsSameDelta(n)

(* C5 amended: after a successful clear the second comparison records no
   NotFound and no Newer; a File delta it classifies Older is one the first
   comparison classified Older already; and it is Same when the first
   comparison classified no file Older. *)
C5_HasOlder(d) == \E n \in DeltaNodes(d) : n.kind = "File" /\ n.diff = "Older"

C5_RecheckOnlyOlderRemains ==
    pc = "rechecked" =>
        /\ delta2.kind = "Dir"
        /\ \A n \in DeltaNodes(delta2) :
              /\ n.kind \in {"Dir", "File"}
              /\ n.kind = "File" => n.diff \in {"Same", "Older"}
              /\ (n.kind = "File" /\ n.diff = "Older") =>
                    \E m \in DeltaNodes(delta) :
                        m.kind = "File" /\ m.diff = "Older" /\ m.dest.path = n.dest.path
        /\ ~C5_HasOlder(delta) => (delta2.diff = "Same" /\ \A n \in DeltaNodes(delta2) : IsSameDelta(n))

\* a reconciliation that copied something, compared again: only Older is left
C5_Witness ==
    /\ pc = "rechecked"
    /\ \E i \in 1..Len(ops) : ops[i].op = "cp"
    /\ delta2.kind = "Dir"
    /\ delta2.diff = "Different"

----------------------------------------------------------------------------
(* C6: the destination never shrinks: in every state of the run, also after
   an aborted apply, every path that was below the destination root when the
   run started still exists, the only operations issued are create_dir and
   cp, and a destination entry without a source entry at the same relative
   path still has the node it had. *)
C6_DestinationNeverShrinks ==
    /\ \A i \in 1..Len(ops) : ops[i].op \in {"create_dir", "cp"}
    /\ \A p \in DOMAIN fs0 :
          InDst(p) =>
              /\ Exists(fs, p)
              /\ fs[p].kind = fs0[p].kind
              /\ ~Exists(fs0, SrcPath(RelOf(p))) => fs[p] = fs0[p]

\* an apply aborted after its second operation, with a destination-only entry
C6_Witness ==
    /\ pc = "failed"
    /\ Len(ops) >= 2
    /\ \E p \in DOMAIN fs0 : InDst(p) /\ Len(p) > 1 /\ ~Exists(fs0, SrcPath(RelOf(p)))

----------------------------------------------------------------------------
(* C7: every create-directory and copy operation targets a path below the
   destination root, and the source tree (its paths and every node) is as
   it was when the run started. *)
C7_OnlyDestinationWritten ==
    /\ \A i \in 1..Len(ops) : InDst(ops[i].to) /\ Len(ops[i].to) > 1
    /\ \A p \in DOMAIN fs \cup DOMAIN fs0 :
          InSrc(p) => (Exists(fs, p) /\ Exists(fs0, p) /\ fs[p] = fs0[p])

\* a finished reconciliation that created a directory and copied into a file
C7_Witness ==
    /\ pc = "done"
    /\ \E i \in 1..Len(ops) : ops[i].op = "create_dir"
    /\ \E n \in DeltaNodes(delta) : n.kind = "File" /\ n.diff = "Newer"

----------------------------------------------------------------------------
(* C8: after clear returned Ok, every file of the source tree has a file at
   the same relative path below the destination root whose modification
   time is not older than the source file's by more than the tolerance. *)
C8_SourceFilesReflected ==
    pc = "done" =>
        \A e \in EntryNodes(source) :
            e.kind = "File" =>
                /\ IsFile(fs, DstPath(RelOf(e.path)))
                /\ fs[e.path].mtime - fs[DstPath(RelOf(e.path))].mtime <= accuracy

\* a Newer file was overwritten and the reconciliation finished
C8_Witness ==
    /\ pc = "done"
    /\ \E n \in DeltaNodes(delta) :
          /\ n.kind = "File" /\ n.diff = "Newer"
          /\ fs[n.dest.path].mtime # fs0[n.dest.path].mtime

----------------------------------------------------------------------------
(* C9: the comparison inspects only the names of the source. An entry of
   the source missing in the destination is NotFound in cmp(source, dest)
   and has no delta at all in cmp(dest, source); when the destination holds
   nothing the source lacks and every other entry is Same, cmp(dest, source)
   is Same; and the destination's own extra entries do not change the
   result of cmp(source, dest). *)
RECURSIVE PruneTo(_, _)
\* the tree e2 without the entries that have no entry of the same name in e1
PruneTo(e2, e1) ==
    IF e2.kind = "Dir" /\ e1.kind = "Dir"
    THEN [e2 EXCEPT !.entries =
            [n \in DOMAIN e2.entries \cap DOMAIN e1.entries |->
                PruneTo(e2.entries[n], e1.entries[n])]]
    ELSE e2

RECURSIVE View(_)
\* the result of a comparison: status and per-child results
View(d) ==
    IF d.kind = "Dir"
    THEN [kind |-> "Dir", diff |-> d.diff,
          entries |-> [n \in DOMAIN d.entries |-> View(d.entries[n])]]
    ELSE IF d.kind = "File" THEN [kind |-> "File", diff |-> d.diff]
    ELSE d

C9_Reverse == EntryCmp(fs0, dest, source, accuracy)

C9_Asymmetry ==
    JustCompared =>
        /\ \A r \in RelPaths :
              (Exists(fs0, SrcPath(r)) /\ ~Exists(fs0, DstPath(r))
                    /\ IsDir(fs0, Parent(DstPath(r)))) =>
                 /\ DeltaAt(delta, r).kind = "NotFound"
                 /\ C9_Reverse.kind = "Dir" => DeltaAt(C9_Reverse, r) = NoDelta
        /\ (/\ \A p \in DOMAIN fs0 : InDst(p) => Exists(fs0, SrcPath(RelOf(p)))
            /\ \A n \in DeltaNodes(delta) : n.kind = "File" => n.diff = "Same") =>
              (C9_Reverse.kind = "Dir" /\ C9_Reverse.diff = "Same")
        /\ View(delta) = View(EntryCmp(fs0, source, PruneTo(dest, source), accuracy))

\* source has a that the destination lacks, and b that both have: seen from
\* the destination the two trees are the same
C9_Witness ==
    /\ JustCompared
    /\ DeltaAt(delta, <<"a">>).kind = "NotFound"
    /\ DeltaAt(delta, <<"b">>).kind \in {"File", "Dir"}
    /\ C9_Reverse.kind = "Dir"
    /\ C9_Reverse.diff = "Same"
    /\ DOMAIN C9_Reverse.entries = {"b"}

----------------------------------------------------------------------------
(* C10: comparing a tree with itself, for every tree and every tolerance,
   gives status Same and records no difference: every recorded child delta,
   at every depth, is Same. *)
C10_Reflexive ==
    pc = "built" =>
        \A T \in {source, dest} :
            LET self == EntryCmp(fs, T, T, accuracy)
            IN  /\ self.kind = "Dir"
                /\ self.diff = "Same"
                /\ \A n \in DeltaNodes(self) : IsSameDelta(n)

\* a tree with a file of time 2 two levels down, and an accuracy above 2
C10_Witness ==
    /\ pc = "built"
    /\ accuracy = 3
    /\ IsFile(fs, <<"src", "a", "a">>)
    /\ fs[<<"src", "a", "a">>].mtime = 2
    /\ DOMAIN source.entries = {"a", "b"}

----------------------------------------------------------------------------
(* C11: tolerance monotonicity. For all modification times and all
   tolerances tol1 < tol2: a file classified Newer with tol1 is Newer or
   Same with tol2, a file classified Older with tol1 is Older or Same with
   tol2, and a file classified Same with tol1 is Same with tol2. *)
C11_ToleranceMonotone ==
    (probe.result # "none" /\ probe.result2 # "none" /\ probe.acc < probe.acc2) =>
        /\ probe.result = "Newer" => probe.result2 \in {"Newer", "Same"}
        /\ probe.result = "Older" => probe.result2 \in {"Older", "Same"}
        /\ probe.result = "Same" => probe.result2 = "Same"

----------------------------------------------------------------------------
(* C12: a file copy preserves the modification time. After FileEntry::copy
   succeeded, comparing the file with its copy and the copy with the file
   both give Same, for every accuracy, also when the target held a newer
   file before. *)
C12_CopyIsSame ==
    pc = "copy_compared" =>
        /\ delta.kind = "File" /\ delta.diff = "Same"
        /\ delta2.kind = "File" /\ delta2.diff = "Same"
        /\ fs[CopyPath].mtime = fs0[ops[1].from].mtime

\* a file of time 0 copied over a file of time 2, compared with the accuracy 3
C12_Witness ==
    /\ pc = "copy_compared"
    /\ accuracy = 3
    /\ IsFile(fs0, CopyPath)
    /\ fs0[CopyPath].mtime > fs0[ops[1].from].mtime

----------------------------------------------------------------------------
(* C13: comparing a file entry with a directory entry of the same name, in
   either direction and at any depth, is a hard error: Entry::cmp of the
   pair is Err, the comparison of every directory above the pair can only
   end with an error (this one when the pair is the first child to fail),
   and the run gets no delta and issues no operation. *)
RECURSIVE C13_MismatchesOf(_, _)
\* the relative paths at which a complete comparison meets a file and a directory
C13_MismatchesOf(e1, e2) ==
    IF e1.kind = "Dir" /\ e2.kind = "Dir"
    THEN UNION {C13_MismatchesOf(e1.entries[n], e2.entries[n]) :
                    n \in DOMAIN e1.entries \cap DOMAIN e2.entries}
    ELSE IF e1.kind # e2.kind THEN {RelOf(e1.path)}
    ELSE {}

C13_Mismatches == C13_MismatchesOf(source, dest)

\* checked before the comparison and in every state it can lead to
C13_MismatchIsHardError ==
    (pc \in {"built", "failed", "panicked"} \/ JustCompared) =>
        \A r \in C13_Mismatches :
            /\ EntryCmp(fs, EntryAt(source, r), EntryAt(dest, r), accuracy) = CmpErr({"Mismatch"})
            /\ EntryCmp(fs, EntryAt(dest, r), EntryAt(source, r), accuracy) = CmpErr({"Mismatch"})
            /\ \A n \in 0..(Len(r) - 1) :
                  LET q == SubSeq(r, 1, n)
                      up == EntryCmp(fs, EntryAt(source, q), EntryAt(dest, q), accuracy)
                      down == EntryCmp(fs, EntryAt(dest, q), EntryAt(source, q), accuracy)
                  IN  /\ up.kind = "Err" /\ "Mismatch" \in up.errs
                      /\ down.kind = "Err" /\ "Mismatch" \in down.errs
            /\ pc # "built" =>
                  /\ pc \in {"failed", "panicked"}
                  /\ pc = "failed" => delta.kind = "Err"
                  /\ pc = "panicked" => delta = NoDelta
                  /\ stack = <<>>
                  /\ ops = <<>>
                  /\ fs = fs0

\* a file against a directory two levels down: the run ended with this error
C13_Witness ==
    /\ pc = "failed"
    /\ delta = CmpErr({"Mismatch"})
    /\ \E r \in C13_Mismatches : Len(r) = 2

----------------------------------------------------------------------------
(* C14: the comparison is fail-fast. When the metadata of a compared file
   cannot be read, the comparison of every directory above it can only end
   with an error (this one when the file is the first child to fail, and
   always when nothing else fails), the top-level comparison returns no
   delta, partial or not, and no operation is issued. *)
C14_FailFast ==
    (pc \notin {"start", "source_built", "built"} /\ unreadable # {}) =>
        LET seen == Unreadable(fs, unreadable)
            top == EntryCmp(seen, source, dest, accuracy)
        IN  /\ \A p \in unreadable :
                  \A n \in 0..(Len(p) - 2) :
                      LET q == SubSeq(RelOf(p), 1, n)
                          r == EntryCmp(seen, EntryAt(source, q), EntryAt(dest, q), accuracy)
                      IN  r.kind = "Err" /\ "Metadata" \in r.errs
            /\ top.errs = {"Metadata"} => (pc = "failed" /\ delta = CmpErr({"Metadata"}))
            /\ pc \in {"failed", "panicked"}
            /\ pc = "failed" => delta.kind = "Err"
            /\ pc = "panicked" => delta = NoDelta
            /\ stack = <<>>
            /\ ops = <<>>
            /\ fs = fs0

\* the metadata of a file two levels down could not be read, next to a
\* sibling without a counterpart: the run ended with this error
C14_Witness ==
    /\ pc = "failed"
    /\ delta = CmpErr({"Metadata"})
    /\ \E p \in unreadable : Len(p) = 3
    /\ \E e \in EntryNodes(source) : Len(e.path) = 3 /\ ~Exists(fs, DstPath(RelOf(e.path)))

----------------------------------------------------------------------------
(* C15: a copy failure during the reconciliation aborts it: the failed
   operation is the last one issued, clear has returned the error and
   nothing is pending, and every operation that succeeded before it is
   still in the destination (no rollback). *)
C15_CopyFailureAborts ==
    \A i \in 1..Len(ops) :
        /\ ~ops[i].ok => (i = Len(ops) /\ pc = "failed" /\ stack = <<>>)
        /\ ops[i].ok =>
              IF ops[i].op = "cp"
              THEN /\ IsFile(fs, ops[i].to)
                   /\ fs[ops[i].to].mtime = fs[ops[i].from].mtime
              ELSE IsDir(fs, ops[i].to)

\* a directory was created, the copy of its first file failed, and the other
\* file of the directory was left uncopied
C15_Witness ==
    /\ pc = "failed"
    /\ Len(ops) = 2
    /\ ops[1].ok /\ ops[1].op = "create_dir" /\ IsDir(fs, ops[1].to)
    /\ ~ops[2].ok /\ ops[2].op = "cp"
    /\ \E e \in EntryNodes(source) :
          /\ e.kind = "File"
          /\ e.path # ops[2].from
          /\ ~Exists(fs, DstPath(RelOf(e.path)))

----------------------------------------------------------------------------
(* C16: tree building with an ignore filter. No entry of the built tree has
   a component the filter matches, so a matched child is skipped and nothing
   below a matched directory appears; every regular file and directory below
   the root whose components the filter does not match is in the tree, as a
   File or a Dir entry; and the ignore file, when its own patterns do not
   match it, is a File entry and is NotFound against the empty destination. *)
C16_Unmatched(q) ==
    \A n \in 2..Len(q) : ~Ignored(ignore, SubSeq(q, 1, n), IsDir(fs, SubSeq(q, 1, n)))

C16_IgnoreFilter ==
    source.kind = "Dir" =>
        /\ \A e \in EntryNodes(source) : C16_Unmatched(e.path)
        /\ \A q \in DOMAIN fs :
              (InSrc(q) /\ Len(q) > 1 /\ fs[q].kind \in {"file", "dir"} /\ C16_Unmatched(q)) =>
                  /\ EntryAt(source, RelOf(q)).kind = (IF fs[q].kind = "dir" THEN "Dir" ELSE "File")
                  /\ EntryAt(source, RelOf(q)).path = q
        /\ (IsFile(fs, IgnoreFile) /\ C16_Unmatched(IgnoreFile)) =>
              /\ EntryAt(source, <<".bkignore">>) = [kind |-> "File", path |-> IgnoreFile]
              /\ delta.kind = "Dir" =>
                    /\ DeltaAt(delta, <<".bkignore">>).kind = "NotFound"
                    /\ DeltaAt(delta, <<".bkignore">>).path = Join(DstRoot, ".bkignore")

\* the filter matches the directory sub, which holds a.txt: the tree has the
\* ignore file and the a.txt of the root, and nothing of sub
C16_Witness ==
    /\ pc = "clearing"
    /\ ignore = Gitignore({Pattern("sub", TRUE)})
    /\ IsFile(fs, <<"src", "sub", "a.txt">>)
    /\ IsFile(fs, <<"src", "a.txt">>)
    /\ DOMAIN source.entries = {".bkignore", "a.txt"}
    /\ DOMAIN delta.entries = {".bkignore", "a.txt"}

----------------------------------------------------------------------------
(* C17 as stated, scenario 5: the ignore file of the source lists *.tmp, the
   source holds a.tmp and a.txt, the destination is empty; the delta
   contains NotFound(a.txt) only, and a.tmp is in neither tree. *)
C17_Scenario5 ==
    /\ ignore = Gitignore({Pattern("*.tmp", FALSE)})
    /\ {q \in DOMAIN fs : InSrc(q)} =
          {SrcRoot, IgnoreFile, <<"src", "a.tmp">>, <<"src", "a.txt">>}
    /\ \A q \in {IgnoreFile, <<"src", "a.tmp">>, <<"src", "a.txt">>} : fs[q].kind = "file"
    /\ {q \in DOMAIN fs : InDst(q)} = {DstRoot}
    /\ pc = "clearing"

C17_OnlyATxt ==
    C17_Scenario5 =>
        /\ DOMAIN delta.entries = {"a.txt"}
        /\ delta.entries["a.txt"].kind = "NotFound"
        /\ "a.tmp" \notin DOMAIN source.entries \cup DOMAIN dest.entries

(* C17 amended: in scenario 5 the delta contains NotFound(a.txt) and
   NotFound of the ignore file itself, and nothing else; a.tmp is in
   neither tree. *)
C17_ATxtAndIgnoreFile ==
    C17_Scenario5 =>
        /\ DOMAIN delta.entries = {"a.txt", ".bkignore"}
        /\ \A n \in DOMAIN delta.entries :
              /\ delta.entries[n].kind = "NotFound"
              /\ delta.entries[n].entry = [kind |-> "File", path |-> Join(SrcRoot, n)]
              /\ delta.entries[n].path = Join(DstRoot, n)
        /\ delta.diff = "Different"
        /\ "a.tmp" \notin DOMAIN source.entries \cup DOMAIN dest.entries

C17_Witness ==
    /\ C17_Scenario5
    /\ DOMAIN source.entries = {"a.txt", ".bkignore"}

----------------------------------------------------------------------------
(* C18: tree building skips symbolic links and every other entry that is
   neither a regular file nor a directory: every entry of a built tree is a
   regular file or a directory of the filesystem itself, and no entry is
   a link, a special file, or a path through a link. *)
C18_LinksSkipped ==
    source.kind = "Dir" =>
        \A e \in EntryNodes(source) :
            /\ e.path \in DOMAIN fs
            /\ fs[e.path].kind \in {"file", "dir"}

----------------------------------------------------------------------------
(* C19 as stated: the child-delta map of a DirDelta contains no File delta
   classified Same and no Dir delta whose status is Same. *)
C19_DirDeltas == {n \in DeltaNodes(delta) : n.kind = "Dir"}

C19_NoSameRecorded ==
    JustCompared =>
        \A n \in C19_DirDeltas :
            \A name \in DOMAIN n.entries : ~IsSameDelta(n.entries[name])

(* C19 amended: a child present in both trees is recorded whatever its own
   delta is, Same included: the map of a DirDelta holds, under the child's
   name, the File delta of the two files with the class their times give
   (Same when they are within the tolerance) or the Dir delta of the two
   directories (of status Same when no child of it differs); a DirDelta of
   status Same holds only Same entries. *)
C19_SameIsRecorded ==
    JustCompared =>
        \A n \in C19_DirDeltas :
            /\ \A name \in DOMAIN n.source.entries \cap DOMAIN n.dest.entries :
                  /\ name \in DOMAIN n.entries
                  /\ LET c == n.entries[name]
                     IN  /\ c.kind = n.source.entries[name].kind
                         /\ c.source = n.source.entries[name]
                         /\ c.dest = n.dest.entries[name]
                         /\ c.kind = "File" =>
                               (c.diff = "Same") =
                                   (/\ fs0[c.source.path].mtime - fs0[c.dest.path].mtime <= accuracy
                                    /\ fs0[c.dest.path].mtime - fs0[c.source.path].mtime <= accuracy)
                         /\ c.kind = "Dir" =>
                               (c.diff = "Same") =
                                   (\A k \in DOMAIN c.entries : IsSameDelta(c.entries[k]))
            /\ n.diff = "Same" => \A name \in DOMAIN n.entries : IsSameDelta(n.entries[name])

\* a directory and a file that are the same on both sides: both are recorded
C19_Witness ==
    /\ JustCompared
    /\ delta.diff = "Same"
    /\ DOMAIN delta.entries = {"a", "b"}
    /\ delta.entries["a"].kind = "Dir"
    /\ delta.entries["b"].kind = "File"
    /\ fs0[<<"src", "b">>].mtime # fs0[<<"dst", "b">>].mtime

----------------------------------------------------------------------------
(* C20: the child-delta map of every DirDelta has exactly one entry per
   child of the source directory, keyed by the child's name, also for the
   children whose comparison is Same, and no entry for a name that only the
   destination has. *)
C20_OneEntryPerSourceChild ==
    JustCompared =>
        \A n \in C19_DirDeltas :
            /\ DOMAIN n.entries = DOMAIN n.source.entries
            /\ DOMAIN n.entries = {FileName(q) : q \in ReadDir(fs0, n.source.path)}
            /\ \A name \in DOMAIN n.entries :
                  LET c == n.entries[name]
                  IN  IF c.kind = "NotFound"
                      THEN /\ c.entry = n.source.entries[name]
                           /\ name \notin DOMAIN n.dest.entries
                      ELSE /\ c.source = n.source.entries[name]
                           /\ FileName(c.source.path) = name

\* both sides hold an equal directory a, the destination holds b as well:
\* status Same with the one entry a
C20_Witness ==
    /\ JustCompared
    /\ delta.diff = "Same"
    /\ DOMAIN delta.entries = {"a"}
    /\ delta.entries["a"].kind = "Dir"
    /\ delta.entries["a"].diff = "Same"
    /\ "b" \in DOMAIN dest.entries

----------------------------------------------------------------------------
(* C21: the status of a directory delta is computed bottom-up. At every
   depth it is Same iff every child of the source directory has an entry of
   the same name in the destination directory and is Same against it (two
   files whose times are within the accuracy, two directories that are
   recursively Same); a NotFound, Newer or Older descendant at any depth
   makes every directory delta above it Different; and an empty source
   directory is Same against any destination directory. *)
RECURSIVE C21_SameTrees(_, _)
\* the two entries are the same, judged from the filesystem alone
C21_SameTrees(e1, e2) ==
    IF e1.kind = "Dir" /\ e2.kind = "Dir"
    THEN \A name \in DOMAIN e1.entries :
            /\ name \in DOMAIN e2.entries
            /\ C21_SameTrees(e1.entries[name], e2.entries[name])
    ELSE /\ e1.kind = "File" /\ e2.kind = "File"
         /\ fs0[e1.path].mtime - fs0[e2.path].mtime <= accuracy
         /\ fs0[e2.path].mtime - fs0[e1.path].mtime <= accuracy

C21_StatusBottomUp ==
    JustCompared =>
        \A n \in C19_DirDeltas :
            /\ (n.diff = "Same") = C21_SameTrees(n.source, n.dest)
            /\ n.diff \in {"Same", "Different"}
            /\ (\E m \in DeltaNodes(n) :
                    \/ m.kind = "NotFound"
                    \/ m.kind = "File" /\ m.diff \in {"Newer", "Older"}) => n.diff = "Different"
            /\ DOMAIN n.source.entries = {} => n.diff = "Same"

\* the one difference is an Older file two levels down, next to nothing else:
\* the directory above it and the root are Different
C21_Witness ==
    /\ JustCompared
    /\ delta.diff = "Different"
    /\ DOMAIN delta.entries = {"a"}
    /\ delta.entries["a"].kind = "Dir"
    /\ delta.entries["a"].diff = "Different"
    /\ DOMAIN delta.entries["a"].entries = {"a"}
    /\ delta.entries["a"].entries["a"].kind = "File"
    /\ delta.entries["a"].entries["a"].diff = "Older"

----------------------------------------------------------------------------
(* C22: the iteration order of the children maps does not affect the
   result. Every directory delta of a successful comparison is the delta
   that the loop of DirEntry::cmp produces in every order of the source
   directory's names (status and every per-child result); and the
   filesystem after a successful clear is one function of the filesystem
   before the run and the delta, whatever orders clear and copy took. *)
C22_Writes ==
    UNION {IF n.kind = "File" /\ n.diff = "Newer"
           THEN {<<n.dest.path, FileNode(fs0[n.source.path].mtime)>>}
           ELSE IF n.kind = "NotFound"
           THEN {<<C4_Target(n, e),
                   IF e.kind = "Dir" THEN DirNode ELSE FileNode(fs0[e.path].mtime)>> :
                       e \in EntryNodes(n.entry)}
           ELSE {} : n \in DeltaNodes(delta)}

\* the reconciled filesystem, computed without any order
C22_Reconciled ==
    LET writes == C22_Writes
    IN  [q \in DOMAIN fs0 \cup {w[1] : w \in writes} |->
            IF \E w \in writes : w[1] = q
            THEN (CHOOSE w \in writes : w[1] = q)[2]
            ELSE fs0[q]]

C22_OrderIndependent ==
    /\ JustCompared =>
          \A n \in C19_DirDeltas :
              \A o \in Orders(DOMAIN n.source.entries) :
                  DirEntryCmpIn(fs0, n.source, n.dest, accuracy, o) = n
    /\ pc = "done" =>
          LET writes == C22_Writes
          IN  /\ \A w1, w2 \in writes : w1[1] = w2[1] => w1 = w2
              /\ fs = C22_Reconciled

\* the root delta has a missing a and a Newer b, and clear took b before a
C22_Witness ==
    /\ pc = "done"
    /\ Len(ops) = 2
    /\ ops[1] = OpCp(<<"src", "b">>, <<"dst", "b">>, TRUE)
    /\ ops[2].to = <<"dst", "a">>
    /\ delta.entries["a"].kind = "NotFound"
    /\ delta.entries["b"].diff = "Newer"

----------------------------------------------------------------------------
(* C23: reconciling a directory delta. A step of clear on a Dir delta issues
   no operation itself; when the status is Different it calls clear on every
   recorded child delta exactly once, before anything that was pending; when
   the status is Same it calls nothing and returns, and nothing is skipped
   by that: no delta below a Same directory delta is NotFound or Newer. *)
C23_ClearDirStep ==
    (Running /\ Top.t = "clear" /\ Top.d.kind = "Dir") =>
        /\ ops' = ops
        /\ fs' = fs
        /\ IF Top.d.diff = "Different"
           THEN LET k == Cardinality(DOMAIN Top.d.entries)
                IN  /\ Len(stack') = k + Len(Rest)
                    /\ SubSeq(stack', k + 1, Len(stack')) = Rest
                    /\ \A name \in DOMAIN Top.d.entries :
                          Cardinality({i \in 1..k :
                              stack'[i] = ClearTask(Top.d.entries[name])}) = 1
           ELSE /\ stack' = Rest
                /\ \A m \in DeltaNodes(Top.d) :
                      /\ m.kind # "NotFound"
                      /\ m.kind = "File" => m.diff # "Newer"

C23_ClearDir == [][C23_ClearDirStep]_vars

\* the root is Different: clear was called on the Same directory a, which has
\* an entry, and returned without an operation; the missing b is pending
C23_Witness ==
    /\ pc = "clearing"
    /\ delta.diff = "Different"
    /\ DOMAIN delta.entries = {"a", "b"}
    /\ delta.entries["a"].kind = "Dir"
    /\ delta.entries["a"].diff = "Same"
    /\ DOMAIN delta.entries["a"].entries # {}
    /\ delta.entries["b"].kind = "NotFound"
    /\ stack = <<ClearTask(delta.entries["b"])>>
    /\ ops = <<>>

----------------------------------------------------------------------------
(* C24: the run is strictly sequential, build -> diff -> reconcile. The
   destination tree is built after the source tree, the delta is computed
   after both, and an operation is issued only when both trees and the
   whole delta of the two are there; when building either tree or the
   comparison returned an error (a root that is missing or no directory, a
   file against a directory, a metadata failure), the run has ended, no
   create or copy was issued and the filesystem is as it was. *)
C24_Sequential ==
    /\ dest # NoEntry => source.kind = "Dir"
    /\ delta # NoDelta => (source.kind = "Dir" /\ dest.kind = "Dir")
    /\ (ops # <<>> \/ stack # <<>> \/ fs # fs0) =>
          /\ source = DirEntryNew(fs0, SrcRoot, ignore)
          /\ dest = DirEntryNew(fs0, DstRoot, IGNORE)
          /\ source.kind = "Dir" /\ dest.kind = "Dir"
          /\ delta.kind = "Dir"
          /\ delta = EntryCmp(fs0, source, dest, accuracy)
    /\ (source.kind = "Err" \/ dest.kind = "Err" \/ delta.kind = "Err") =>
          /\ pc = "failed"
          /\ ops = <<>>
          /\ stack = <<>>
          /\ fs = fs0
    /\ source.kind = "Err" => (dest = NoEntry /\ delta = NoDelta)
    /\ dest.kind = "Err" => delta = NoDelta

\* the source tree was built and has entries, the destination root is
\* missing: the run ended there and the root was not created
C24_Witness ==
    /\ pc = "failed"
    /\ source.kind = "Dir"
    /\ DOMAIN source.entries # {}
    /\ dest.kind = "Err"
    /\ ~Exists(fs, DstRoot)

----------------------------------------------------------------------------
(* C25: file comparison is antisymmetric. For all modification times a and
   b and every accuracy, cmp(a, b) is Newer iff cmp(b, a) is Older, cmp(a, b)
   is Older iff cmp(b, a) is Newer, cmp(a, b) is Same iff cmp(b, a) is Same,
   and cmp(a, a) is Same. *)
C25_Antisymmetric ==
    /\ (probe.result # "none" /\ probe.reversed # "none") =>
          /\ (probe.result = "Newer") = (probe.reversed = "Older")
          /\ (probe.result = "Older") = (probe.reversed = "Newer")
          /\ (probe.result = "Same") = (probe.reversed = "Same")
    /\ (probe.result # "none" /\ probe.s = probe.d) => probe.result = "Same"

\* a source newer by more than a positive accuracy, compared both ways
C25_Witness ==
    /\ probe.result = "Newer"
    /\ probe.reversed = "Older"
    /\ probe.acc > 0

----------------------------------------------------------------------------
(* C26: in the earliest revision (main.rs), a directory comparison with a
   child whose comparison fails (a file against a directory of the same
   name, a metadata read failure) fails as a whole: the result of the
   comparison of the two roots is that error, never a Same or Different
   computed from the remaining children. *)
C26_FailedChildren ==
    {name \in DOMAIN source.entries \cap DOMAIN dest.entries :
        Main_EntryCmp(Unreadable(fs, unreadable), source.entries[name],
                      dest.entries[name]).kind = "Err"}

C26_ChildErrorPropagates ==
    (pc = "main_compared" /\ C26_FailedChildren # {}) => delta.kind = "Err"

----------------------------------------------------------------------------
(* C27: file_cmp_modified returns one of Same, Older, Newer for every
   source time, destination time and accuracy, also when the accuracy is
   greater than both times: the subtractions `source - accuracy` and
   `dest - accuracy` never underflow. *)
C27_NoUnderflow ==
    /\ probe.result # "none" => probe.result \in {"Same", "Older", "Newer"}
    /\ probe.reversed # "none" => probe.reversed \in {"Same", "Older", "Newer"}

----------------------------------------------------------------------------
(* C28: ignored entries are never copied. When a source directory is missing
   from the destination as a whole, DirEntry::copy copies the entries that
   the in-memory source tree records and nothing else: in every state no
   path of the source that the ignore filter excluded at build time (the
   path itself or a directory above it is matched) exists below the
   destination root, every path below the destination root is the path of
   an entry of the source tree, and after a successful clear each entry of
   the source tree is there. *)
C28_Excluded(q) ==
    \E n \in 2..Len(q) : Ignored(ignore, SubSeq(q, 1, n), IsDir(fs0, SubSeq(q, 1, n)))

\* the relative paths the source can hold at and below sub, those reached
\* through a link included
C28_Rels == IgnorePaths \cup {<<"sub", "sub", "a.txt">>}

\* what the destination holds at and below sub
C28_Copied == {RelOf(q) : q \in {q \in DOMAIN fs : IsPrefix(Join(DstRoot, "sub"), q)}}
C28_Recorded ==
    {RelOf(e.path) : e \in {e \in EntryNodes(source) : IsPrefix(Join(SrcRoot, "sub"), e.path)}}

C28_IgnoredNotCopied ==
    /\ \A r \in C28_Rels :
          (Real(fs0, SrcPath(r)) # <<>> /\ C28_Excluded(SrcPath(r))) => ~Exists(fs, DstPath(r))
    /\ C28_Copied # {} =>
          /\ DeltaAt(delta, <<"sub">>).kind = "NotFound"
          /\ C28_Copied \subseteq C28_Recorded
    /\ pc = "done" => C28_Copied = C28_Recorded

\* sub was missing in the destination and has been copied: its a.txt is in
\* the destination, its a.tmp, which the filter matches, is not
C28_Witness ==
    /\ pc = "done"
    /\ ignore = Gitignore({Pattern("*.tmp", FALSE)})
    /\ IsFile(fs0, <<"src", "sub", "a.tmp">>)
    /\ IsFile(fs0, <<"src", "sub", "sub", "a.tmp">>)
    /\ DeltaAt(delta, <<"sub">>).kind = "NotFound"
    /\ IsFile(fs, <<"dst", "sub", "a.txt">>)
    /\ IsDir(fs, <<"dst", "sub", "sub">>)
    /\ ~Exists(fs, <<"dst", "sub", "a.tmp">>)

----------------------------------------------------------------------------
(* C29: during one clear no destination path is the target of more than one
   operation: no two operations issued, failed ones included, have the same
   target, the target of a copy is no directory (so the path written is the
   target itself), and every target is the one planned by the delta, where
   the targets of the entries of the NotFound subtrees and of the Newer
   files are pairwise distinct. *)
\* <<what is copied, where to>> for every operation the delta calls for
C29_Planned ==
    UNION {IF n.kind = "File" /\ n.diff = "Newer"
           THEN {<<n.source.path, n.dest.path>>}
           ELSE IF n.kind = "NotFound"
           THEN {<<e.path, C4_Target(n, e)>> : e \in EntryNodes(n.entry)}
           ELSE {} : n \in DeltaNodes(delta)}

C29_OneOperationPerTarget ==
    /\ \A i, j \in 1..Len(ops) : ops[i].to = ops[j].to => i = j
    /\ ops # <<>> =>
          LET planned == C29_Planned
          IN  \A i \in 1..Len(ops) :
                  /\ ops[i].op = "cp" => ~IsDir(fs, ops[i].to)
                  /\ \E t \in planned :
                        /\ t[2] = ops[i].to
                        /\ ops[i].op = "cp" => t[1] = ops[i].from
    /\ JustCompared =>
          LET planned == C29_Planned
          IN  \A t1, t2 \in planned : t1[2] = t2[2] => t1[1] = t2[1]

\* a finished clear of three operations: a directory created, its file
\* copied into it, and a Newer file copied over its older copy
C29_Witness ==
    /\ pc = "done"
    /\ Len(ops) = 3
    /\ \E i, j \in 1..3 :
          /\ ops[i].op = "create_dir"
          /\ ops[j].op = "cp" /\ Parent(ops[j].to) = ops[i].to
    /\ \E n \in DeltaNodes(delta) :
          /\ n.kind = "File" /\ n.diff = "Newer"
          /\ \E i \in 1..3 : ops[i].to = n.dest.path

----------------------------------------------------------------------------
(* C30: tree building terminates, also when the source holds symbolic links
   to themselves or to their ancestors. While the tree is built a call of
   visit is always possible, no path is visited twice, every path visited or
   pending runs through at most MaxHops links and has a bounded length (so
   the calls run out), each directory of the filesystem is visited a
   bounded number of times, and when no call is pending the tree has been
   returned and its directories are the paths visited. *)
\* the number of components of p that are symbolic links
C30_Links(p) ==
    Cardinality({n \in 2..Len(p) :
        LET up == Real(fs, SubSeq(p, 1, n - 1))
        IN  /\ up # <<>>
            /\ Join(up, p[n]) \in DOMAIN fs
            /\ fs[Join(up, p[n])].kind = "symlink"})

C30_Paths == {ops[i].to : i \in 1..Len(ops)} \cup {stack[i] : i \in 1..Len(stack)}

C30_BuildTerminates ==
    pc \in {"visiting", "visited"} =>
        /\ pc = "visiting" => stack # <<>>
        /\ \A i, j \in 1..Len(ops) : ops[i].to = ops[j].to => i = j
        /\ \A q \in C30_Paths :
              /\ IsDir(fs, q)
              /\ C30_Links(q) <= MaxHops
              /\ Len(q) <= 1 + (MaxHops + 1) * MaxPaths
        /\ \A r \in DOMAIN fs :
              Cardinality({i \in 1..Len(ops) : Real(fs, ops[i].to) = r})
                  <= (MaxPaths + 1) ^ MaxHops
        /\ pc = "visited" =>
              /\ stack = <<>>
              /\ source.kind = "Dir"
              /\ {e.path : e \in {e \in EntryNodes(source) : e.kind = "Dir"}}
                    = {ops[i].to : i \in 1..Len(ops)}

\* a is a link to the root, its ancestor, and b is a link to itself: the
\* root was visited as src, src/a, src/a/a, and the tree was returned
C30_Witness ==
    /\ pc = "visited"
    /\ Exists(fs, <<"src", "a">>) /\ fs[<<"src", "a">>] = SymlinkNode(SrcRoot)
    /\ Exists(fs, <<"src", "b">>) /\ fs[<<"src", "b">>] = SymlinkNode(<<"src", "b">>)
    /\ Len(ops) = MaxHops + 1
    /\ \A i \in 1..Len(ops) : Real(fs, ops[i].to) = SrcRoot

====
